---- MODULE Spec2Model ----
(***************************************************************************)
(* SMT API (server.js): a Fastify server over one SQLite table, "demons".  *)
(* The model covers the database setup and seeding (initDb, seedData), the *)
(* list handler GET /api/v1/demons (filter, $sort, $page, $pageSize turned *)
(* into one SQL statement) and the create handler POST /api/v1/demons.     *)
(*                                                                         *)
(* A JavaScript string is a sequence of one-character strings, so that     *)
(* split, the $sort pattern, parseInt and toUpperCase are computed the way *)
(* the code computes them.  A tuple whose only element has more than one   *)
(* character is never such a string: it stands for SQL NULL, for a missing *)
(* JSON field, or for a fixed fragment of SQL text.                        *)
(***************************************************************************)
EXTENDS Integers, Sequences, FiniteSets

VARIABLES
    rows,         \* the demons table, in rowid order
    seq,          \* sqlite_sequence: the largest rowid AUTOINCREMENT has generated
    keepsSkipped, \* whether this SQLite build records the rowid of a skipped row
    tableExists,  \* database.sqlite holds the demons table
    dbOpen,       \* the open callback of new sqlite3.Database has run
    dbQueue,      \* statements initDb queued under db.serialize, not yet executed
    listening,    \* fastify.listen has resolved
    run,          \* number of process starts so far
    seeded,       \* some start has executed all of its seed statements
    posts,        \* create requests whose INSERT has not executed yet
    log,          \* the answers given to create requests, oldest first
    lq,           \* the list request whose db.all has not executed yet
    resp          \* the answer to a list request, in the turn that sends it

vars == <<rows, seq, keepsSkipped, tableExists, dbOpen, dbQueue, listening,
          run, seeded, posts, log, lq, resp>>

---------------------------------------------------------------------------
(* Bounds of the model. *)

MaxRuns == 2
MaxCreates == 2
MaxQueryCreates == 1

---------------------------------------------------------------------------
(* Characters and strings. *)

Digits == <<"0", "1", "2", "3", "4", "5", "6", "7", "8", "9">>

Uppers == <<"A", "B", "C", "D", "E", "F", "G", "H", "I", "J", "K", "L", "M",
            "N", "O", "P", "Q", "R", "S", "T", "U", "V", "W", "X", "Y", "Z">>

Lowers == <<"a", "b", "c", "d", "e", "f", "g", "h", "i", "j", "k", "l", "m",
            "n", "o", "p", "q", "r", "s", "t", "u", "v", "w", "x", "y", "z">>

\* The characters of the model in code-unit order (the order memcmp and
\* SQLite's BINARY collation compare by).
Chars == <<" ", ",", "-">> \o Digits \o <<":">> \o Uppers \o <<"_">> \o Lowers

Range(s) == {s[i] : i \in DOMAIN s}

Code(c) == CHOOSE i \in DOMAIN Chars : Chars[i] = c

IsDigit(c) == c \in Range(Digits)

DigitValue(c) == (CHOOSE i \in DOMAIN Digits : Digits[i] = c) - 1

\* [a-zA-Z0-9]
IsAlnum(c) == c \in Range(Digits) \cup Range(Uppers) \cup Range(Lowers)

UpperChar(c) ==
    IF c \in Range(Lowers)
    THEN Uppers[CHOOSE i \in DOMAIN Lowers : Lowers[i] = c]
    ELSE c

LowerChar(c) ==
    IF c \in Range(Uppers)
    THEN Lowers[CHOOSE i \in DOMAIN Uppers : Uppers[i] = c]
    ELSE c

\* String.prototype.toUpperCase
toUpperCase(s) == [i \in DOMAIN s |-> UpperChar(s[i])]

toLowerCase(s) == [i \in DOMAIN s |-> LowerChar(s[i])]

\* String.prototype.split with a one-character separator: every occurrence
\* of the separator cuts the string.
RECURSIVE split(_, _)
split(s, sep) ==
    IF \A i \in DOMAIN s : s[i] # sep
    THEN <<s>>
    ELSE LET k == CHOOSE i \in DOMAIN s :
                      s[i] = sep /\ \A j \in 1..(i - 1) : s[j] # sep
         IN <<SubSeq(s, 1, k - 1)>> \o split(SubSeq(s, k + 1, Len(s)), sep)

\* Array.prototype.join (what String(array) computes, with ",").
RECURSIVE join(_, _)
join(items, sep) ==
    IF Len(items) = 0 THEN <<>>
    ELSE IF Len(items) = 1 THEN items[1]
    ELSE items[1] \o <<sep>> \o join(Tail(items), sep)

\* String(n) for an integer n.
RECURSIVE NatToString(_)
NatToString(n) ==
    IF n < 10 THEN <<Digits[n + 1]>>
    ELSE NatToString(n \div 10) \o <<Digits[(n % 10) + 1]>>

NumberToString(n) == IF n < 0 THEN <<"-">> \o NatToString(-n) ELSE NatToString(n)

---------------------------------------------------------------------------
(* JavaScript numbers: an integer or NaN. *)

NaN == [nan |-> TRUE, n |-> 0]

Num(k) == [nan |-> FALSE, n |-> k]

isNaN(x) == x.nan

NumSub(x, y) == IF x.nan \/ y.nan THEN NaN ELSE Num(x.n - y.n)

NumMul(x, y) == IF x.nan \/ y.nan THEN NaN ELSE Num(x.n * y.n)

\* The value of the longest prefix of digits of s, most significant first.
RECURSIVE DigitsValue(_, _)
DigitsValue(s, acc) ==
    IF Len(s) = 0 \/ ~IsDigit(s[1]) THEN acc
    ELSE DigitsValue(Tail(s), acc * 10 + DigitValue(s[1]))

RECURSIVE TrimStart(_)
TrimStart(s) == IF Len(s) > 0 /\ s[1] = " " THEN TrimStart(Tail(s)) ELSE s

\* parseInt(string): leading white space is skipped, then an optional sign,
\* then the longest run of decimal digits; no digit gives NaN.
parseIntString(s) ==
    LET t == TrimStart(s)
        neg == Len(t) > 0 /\ t[1] = "-"
        u == IF Len(t) > 0 /\ t[1] \in {"-", "+"} THEN Tail(t) ELSE t
    IN IF Len(u) = 0 \/ ~IsDigit(u[1]) THEN NaN
       ELSE Num((IF neg THEN -1 ELSE 1) * DigitsValue(u, 0))

---------------------------------------------------------------------------
(* Values of request.query: a parameter is absent (undefined), a string, or *)
(* an array of strings when the parameter is repeated in the URL.          *)

Absent == [kind |-> "undefined", v |-> <<>>, items |-> <<>>, n |-> 0]

Str(s) == [kind |-> "string", v |-> s, items |-> <<>>, n |-> 0]

Arr(items) == [kind |-> "array", v |-> <<>>, items |-> items, n |-> 0]

\* The default of a destructured parameter ($page = 1): a number.
NumberValue(n) == [kind |-> "number", v |-> <<>>, items |-> <<>>, n |-> n]

\* String(x)
StringOf(x) ==
    CASE x.kind = "string" -> x.v
      [] x.kind = "array" -> join(x.items, ",")
      [] x.kind = "number" -> NumberToString(x.n)
      [] OTHER -> <<"u", "n", "d", "e", "f", "i", "n", "e", "d">>

\* parseInt(x): the argument is converted to a string first.
parseInt(x) == parseIntString(StringOf(x))

\* if (x): undefined and the empty string are falsy, an array is truthy.
Truthy(x) ==
    CASE x.kind = "undefined" -> FALSE
      [] x.kind = "string" -> Len(x.v) > 0
      [] OTHER -> TRUE

---------------------------------------------------------------------------
(* The columns of the demons table and the texts the model uses. *)

c_id == <<"i", "d">>
c_name == <<"n", "a", "m", "e">>
c_description == <<"d", "e", "s", "c", "r", "i", "p", "t", "i", "o", "n">>
c_race == <<"r", "a", "c", "e">>
c_alignment == <<"a", "l", "i", "g", "n", "m", "e", "n", "t">>
c_imageUrl == <<"i", "m", "a", "g", "e", "U", "r", "l">>

\* SQL NULL, which is also what an undefined JavaScript value is bound as.
NULL == <<"NULL">>

Law == <<"L", "a", "w">>
Neutral == <<"N", "e", "u", "t", "r", "a", "l">>
Chaos == <<"C", "h", "a", "o", "s">>
unknown == <<"u", "n", "k", "n", "o", "w", "n">>
LightLaw == <<"L", "i", "g", "h", "t", "-", "L", "a", "w">>
DarkChaos == <<"D", "a", "r", "k", "-", "C", "h", "a", "o", "s">>
NeutralNeutral == Neutral \o <<"-">> \o Neutral

Fata == <<"F", "a", "t", "a">>
Drago == <<"D", "r", "a", "g", "o">>
Pixie == <<"P", "i", "x", "i", "e">>
Angel == <<"A", "n", "g", "e", "l">>
Jack == <<"J", "a", "c", "k">>
Odin == <<"O", "d", "i", "n">>
pixie == <<"p", "i", "x", "i", "e">>
RaKu == <<"R", "a", ":", "K", "u">>
Evil == <<"E", "v", "i", "l">>
asc == <<"a", "s", "c">>
desc == <<"d", "e", "s", "c">>

---------------------------------------------------------------------------
(* The list handler: GET /api/v1/demons. *)

\* The SQL text is the concatenation of its fragments: a fixed piece of the
\* source text is a one-element tuple, an interpolated ${...} is the string
\* that was interpolated.
SqlSelect == <<"SELECT * FROM demons">>
SqlWhere == <<" WHERE ">>
SqlEqParam == <<" = ?">>
SqlOrderBy == <<" ORDER BY ">>
SqlSpace == <<" ">>
SqlLimitOffset == <<" LIMIT ? OFFSET ?">>

allowedFilters == {c_id, c_name, c_race, c_alignment}

allowedSorts == {c_id, c_name, c_race, c_alignment, c_imageUrl}

DefaultPage == 1

DefaultPageSize == 10

FallbackLimit == 10

NoMatch == [ok |-> FALSE, col |-> <<>>, dir |-> <<>>]

\* $sort.match(/^([a-zA-Z0-9]+)_(asc|desc)$/i): the first group cannot hold
\* an underscore, so it ends at the first one; the rest of the string must be
\* asc or desc in any letter case.
SortMatch(s) ==
    LET us == {i \in DOMAIN s : s[i] = "_"}
    IN IF us = {} THEN NoMatch
       ELSE LET k == CHOOSE i \in us : \A j \in us : i <= j
                col == SubSeq(s, 1, k - 1)
                dir == SubSeq(s, k + 1, Len(s))
            IN IF /\ Len(col) >= 1
                  /\ \A i \in DOMAIN col : IsAlnum(col[i])
                  /\ toLowerCase(dir) \in {asc, desc}
               THEN [ok |-> TRUE, col |-> col, dir |-> dir]
               ELSE NoMatch

\* A filter whose value is written into the SQL text instead of being bound.
FilterClauseInterpolated(filter) ==
    LET parts == split(filter.v, ":")
    IN IF Truthy(filter) /\ Len(parts) = 2 /\ parts[1] \in allowedFilters
       THEN [sql |-> <<SqlWhere, parts[1], <<" = '">>, parts[2], <<"'">>>>,
             params |-> <<>>]
       ELSE [sql |-> <<>>, params |-> <<>>]

\* Lines 119-135: the WHERE clause and its bound value.
FilterClause(filter) ==
    LET parts == split(filter.v, ":")
    IN IF Truthy(filter) /\ Len(parts) = 2 /\ parts[1] \in allowedFilters
       THEN [sql |-> <<SqlWhere, parts[1], SqlEqParam>>, params |-> <<parts[2]>>]
       ELSE [sql |-> <<>>, params |-> <<>>]

\* Lines 138-150: the ORDER BY clause.  The else branch belongs to
\* if ($sort): a $sort that is present and does not pass adds nothing.
SortClause(sort) ==
    IF Truthy(sort)
    THEN LET m == SortMatch(sort.v)
         IN IF m.ok /\ m.col \in allowedSorts
            THEN <<SqlOrderBy, m.col, SqlSpace, toUpperCase(m.dir)>>
            ELSE <<>>
    ELSE <<SqlOrderBy, c_id, SqlSpace, toUpperCase(asc)>>

\* Lines 153-158: limit and offset.
Pagination(page, pageSize) ==
    LET p == IF page.kind = "undefined" THEN NumberValue(DefaultPage) ELSE page
        s == IF pageSize.kind = "undefined" THEN NumberValue(DefaultPageSize)
             ELSE pageSize
        limit == parseInt(s)
        offset == NumMul(NumSub(parseInt(p), Num(1)), limit)
        safeLimit == IF isNaN(limit) \/ limit.n < 1 THEN FallbackLimit ELSE limit.n
        safeOffset == IF isNaN(offset) \/ offset.n < 0 THEN 0 ELSE offset.n
    IN <<safeLimit, safeOffset>>

\* filter.split and $sort.match exist on strings only: a truthy value of
\* another type makes the handler throw a TypeError, which Fastify answers
\* with status 500.
Throws(query) ==
    \/ Truthy(query.filter) /\ query.filter.kind # "string"
    \/ Truthy(query.sort) /\ query.sort.kind # "string"

\* Lines 112-161: the statement and the parameters handed to db.all.
ListHandler(query) ==
    IF Throws(query)
    THEN [threw |-> TRUE, sql |-> <<>>, params |-> <<>>]
    ELSE LET f == FilterClause(query.filter)
         IN [threw |-> FALSE,
             sql |-> <<SqlSelect>> \o f.sql \o SortClause(query.sort)
                     \o <<SqlLimitOffset>>,
             params |-> f.params \o Pagination(query.page, query.pageSize)]

---------------------------------------------------------------------------
(* The store: the demons table as SQLite keeps it. *)

Max(S) == CHOOSE x \in S : \A y \in S : y <= x

Min(a, b) == IF a < b THEN a ELSE b

Ids(table) == {table[i].id : i \in DOMAIN table}

Names(table) == {table[i].name : i \in DOMAIN table}

\* A rowid generator that forgets the increment.
NewRowidReused(table, sequence) == Max(Ids(table) \cup {sequence, 1})

\* id INTEGER PRIMARY KEY AUTOINCREMENT: one more than the largest rowid ever
\* generated, which sqlite_sequence remembers.
NewRowid(table, sequence) == Max(Ids(table) \cup {sequence, 0}) + 1

\* name TEXT NOT NULL UNIQUE: the constraints an INSERT must pass.  UNIQUE
\* compares with the BINARY collation, so names differing in case differ.
UniqueFails(table, name) == name \in Names(table)

NotNullFails(name) == name = NULL

Conflicts(table, name) == NotNullFails(name) \/ UniqueFails(table, name)

NewRow(table, sequence, d) ==
    [id |-> NewRowid(table, sequence), name |-> d.name,
     description |-> d.description, race |-> d.race,
     alignment |-> d.alignment, imageUrl |-> d.imageUrl]

\* The value of a column of a row.
RowValue(r, col) ==
    CASE col = c_id -> r.id
      [] col = c_name -> r.name
      [] col = c_description -> r.description
      [] col = c_race -> r.race
      [] col = c_alignment -> r.alignment
      [] col = c_imageUrl -> r.imageUrl

\* A text compared with the INTEGER column: the text is converted when it is
\* an integer literal, and is unequal to every integer otherwise.
IsIntegerLiteral(s) ==
    LET u == IF Len(s) > 0 /\ s[1] = "-" THEN Tail(s) ELSE s
    IN Len(u) > 0 /\ \A i \in DOMAIN u : IsDigit(u[i])

\* col = ? with a bound text value.
SqlEquals(r, col, value) ==
    IF col = c_id
    THEN IsIntegerLiteral(value) /\ parseIntString(value).n = r.id
    ELSE RowValue(r, col) # NULL /\ RowValue(r, col) = value

\* memcmp order of two texts.
RECURSIVE TextLess(_, _)
TextLess(a, b) ==
    IF Len(b) = 0 THEN FALSE
    ELSE IF Len(a) = 0 THEN TRUE
    ELSE IF a[1] # b[1] THEN Code(a[1]) < Code(b[1])
    ELSE TextLess(Tail(a), Tail(b))

\* The order of two rows under ORDER BY col ASC: NULL sorts first.
RowLess(r1, r2, col) ==
    IF col = c_id THEN r1.id < r2.id
    ELSE LET a == RowValue(r1, col)
             b == RowValue(r2, col)
         IN IF a = NULL THEN b # NULL
            ELSE IF b = NULL THEN FALSE
            ELSE TextLess(a, b)

Position(sql, fragment) ==
    IF \E i \in DOMAIN sql : sql[i] = fragment
    THEN CHOOSE i \in DOMAIN sql : sql[i] = fragment
    ELSE 0

\* The rows the WHERE clause of the statement selects, as indexes of the table.
Selected(sql, params, table) ==
    LET w == Position(sql, SqlWhere)
    IN IF w = 0 THEN DOMAIN table
       ELSE {i \in DOMAIN table : SqlEquals(table[i], sql[w + 1], params[1])}

\* The sort key of the statement: the column and direction of its ORDER BY
\* clause, or nothing for a statement without one.
SortKey(sql) ==
    LET o == Position(sql, SqlOrderBy)
    IN IF o = 0 THEN <<>> ELSE <<sql[o + 1], sql[o + 3]>>

\* Whether the sort key puts row r1 before row r2; without a key no row is
\* put before another.
Precedes(r1, r2, key) ==
    IF Len(key) = 0 THEN FALSE
    ELSE IF key[2] = toUpperCase(asc) THEN RowLess(r1, r2, key[1])
    ELSE RowLess(r2, r1, key[1])

\* The orders the sort key allows for a set of rows: each starts with a row
\* that no other row precedes.
RECURSIVE Arrangements(_, _, _)
Arrangements(S, key, table) ==
    IF S = {} THEN {<<>>}
    ELSE UNION {{<<x>> \o p : p \in Arrangements(S \ {x}, key, table)} :
                   x \in {y \in S : \A z \in S :
                             ~Precedes(table[z], table[y], key)}}

\* The orders the statement allows for the selected rows: the order of its
\* ORDER BY clause, rows with equal keys in any order; any order at all for a
\* statement without ORDER BY, which SQL leaves to the engine.
Ordered(sql, params, table) ==
    Arrangements(Selected(sql, params, table), SortKey(sql), table)

\* db.all(sql, params): every answer the store may give, LIMIT and OFFSET
\* bound to the last two parameters.
DbAll(sql, params, table) ==
    LET limit == params[Len(params) - 1]
        offset == params[Len(params)]
    IN {[k \in 1..(Min(Len(p), offset + limit) - Min(Len(p), offset)) |->
            table[p[Min(Len(p), offset) + k]]] : p \in Ordered(sql, params, table)}

---------------------------------------------------------------------------
(* Seeding: initDb and seedData. *)

\* A field a JSON object does not have.
Undefined == <<"undefined">>

\* node-sqlite3 binds undefined as NULL.
Bind(v) == IF v = Undefined THEN NULL ELSE v

\* a || b || "" on strings: undefined and the empty string are falsy.
OrElse(a, b) == IF a = Undefined \/ a = <<>> THEN b ELSE a

Demon(name, race, alignment, image_source_url, img) ==
    [name |-> name, description |-> Undefined, race |-> race,
     alignment |-> alignment, image_source_url |-> image_source_url, img |-> img]

\* The files of seeds/: an old batch with img, a file that is not JSON, and a
\* new batch with image_source_url that repeats a name of the first batch.
SeedFiles ==
    << [parses |-> TRUE,
        data |-> << Demon(Pixie, Fata, Neutral, Undefined, <<"p">>),
                    Demon(Angel, Drago, Law, Undefined, Undefined) >>],
       [parses |-> FALSE, data |-> <<>>],
       [parses |-> TRUE,
        data |-> << Demon(Pixie, Drago, Chaos, <<"q">>, Undefined),
                    Demon(Jack, Fata, LightLaw, <<"j">>, <<"x">>) >>] >>

\* Lines 64-70: the values stmt.run binds for one seed object.
SeedStatement(demon) ==
    [op |-> "seed",
     d |-> [name |-> Bind(demon.name), description |-> Bind(demon.description),
            race |-> Bind(demon.race), alignment |-> Bind(demon.alignment),
            imageUrl |-> OrElse(OrElse(demon.image_source_url, demon.img), <<>>)]]

\* Lines 56-78: the statements seedData queues, file by file; a file that
\* does not parse is logged and skipped.
RECURSIVE seedData(_)
seedData(files) ==
    IF Len(files) = 0 THEN <<>>
    ELSE (IF files[1].parses
          THEN [i \in DOMAIN files[1].data |-> SeedStatement(files[1].data[i])]
          ELSE <<>>) \o seedData(Tail(files))

\* Lines 35-47: what initDb queues under db.serialize.
initDb == <<[op |-> "create_table", d |-> <<>>]>> \o seedData(SeedFiles)

\* INSERT OR REPLACE in place of INSERT OR IGNORE: the row of the same name
\* is deleted and the new one inserted.
InsertOrReplace(table, sequence, d) ==
    Append(SelectSeq(table, LAMBDA r : r.name # d.name),
           [id |-> Max(Ids(table) \cup {sequence, 0}) + 1, name |-> d.name,
            description |-> d.description, race |-> d.race,
            alignment |-> d.alignment, imageUrl |-> d.imageUrl])

\* INSERT OR IGNORE: a row that breaks a constraint is skipped.
InsertOrIgnore(table, sequence, d) ==
    IF Conflicts(table, d.name) THEN table
    ELSE Append(table, NewRow(table, sequence, d))

\* sqlite_sequence after an INSERT OR IGNORE: the rowid of the row inserted.
\* For a skipped row the engine has generated a rowid before it checks the
\* constraints; whether it records that rowid depends on the build.
SequenceAfterIgnore(table, sequence, d, keeps) ==
    IF Conflicts(table, d.name) /\ ~keeps THEN sequence
    ELSE NewRowid(table, sequence)

\* The table and its sqlite_sequence once every statement of a queue has
\* executed.
RECURSIVE SeedAll(_, _, _, _)
SeedAll(table, sequence, queue, keeps) ==
    IF Len(queue) = 0 THEN [table |-> table, seq |-> sequence]
    ELSE IF queue[1].op = "seed"
    THEN SeedAll(InsertOrIgnore(table, sequence, queue[1].d),
                 SequenceAfterIgnore(table, sequence, queue[1].d, keeps),
                 Tail(queue), keeps)
    ELSE SeedAll(table, sequence, Tail(queue), keeps)

---------------------------------------------------------------------------
(* The create handler: POST /api/v1/demons. *)

MaxNameLength == 100
MaxDescriptionLength == 500
MaxRaceLength == 50

alignmentEnum ==
    {Law, Neutral, Chaos, unknown, LightLaw, DarkChaos, NeutralNeutral}

\* format: 'uri': a scheme, a colon, and something after it.
IsUri(s) ==
    \E k \in DOMAIN s :
        /\ s[k] = ":"
        /\ k > 1
        /\ k < Len(s)
        /\ s[1] \in Range(Uppers) \cup Range(Lowers)
        /\ \A i \in 1..(k - 1) : IsAlnum(s[i]) \/ s[i] = "-"

\* The schema without the enum of alignment.
demonSchemaWithoutEnum(body) ==
    /\ body.name # Undefined
    /\ body.race # Undefined
    /\ body.alignment # Undefined
    /\ Len(body.name) >= 1

\* demonSchema: the body Fastify lets through to the handler.
demonSchema(body) ==
    /\ body.name # Undefined
    /\ body.race # Undefined
    /\ body.alignment # Undefined
    /\ Len(body.name) >= 1
    /\ Len(body.name) <= MaxNameLength
    /\ body.description # Undefined => Len(body.description) <= MaxDescriptionLength
    /\ Len(body.race) <= MaxRaceLength
    /\ body.alignment \in alignmentEnum
    /\ body.imageUrl # Undefined => IsUri(body.imageUrl)

Body(name, race, alignment, imageUrl) ==
    [name |-> name, description |-> Undefined, race |-> race,
     alignment |-> alignment, imageUrl |-> imageUrl]

\* The values stmt.run binds for a create request.
CreateStatement(body) ==
    [name |-> Bind(body.name), description |-> Bind(body.description),
     race |-> Bind(body.race), alignment |-> Bind(body.alignment),
     imageUrl |-> Bind(body.imageUrl)]

\* Lines 185-205: the answer to a create request whose INSERT has run on
\* the table.
CreateReply(table, sequence, body) ==
    IF NotNullFails(Bind(body.name))
    THEN [status |-> 500, id |-> 0, name |-> body.name]
    ELSE IF UniqueFails(table, Bind(body.name))
    THEN [status |-> 409, id |-> 0, name |-> body.name]
    ELSE [status |-> 201, id |-> NewRowid(table, sequence), name |-> body.name]

\* An INSERT into a table whose name column has lost its UNIQUE constraint.
InsertWithoutUnique(table, sequence, d) ==
    Append(table,
           [id |-> Max(Ids(table) \cup {sequence, 0}) + 1, name |-> d.name,
            description |-> d.description, race |-> d.race,
            alignment |-> d.alignment, imageUrl |-> d.imageUrl])

\* INSERT: a row that breaks a constraint fails the statement.
Insert(table, sequence, d) ==
    IF Conflicts(table, d.name) THEN table
    ELSE Append(table, NewRow(table, sequence, d))

---------------------------------------------------------------------------
(* The requests the model sends. *)

Field(field, value) == field \o <<":">> \o value

Sort(field, dir) == field \o <<"_">> \o dir

bogus == <<"b", "o", "g", "u", "s">>

Filters ==
    {Absent, Str(<<>>), Str(Field(c_race, Fata)), Str(Field(c_race, toLowerCase(Fata))),
     Str(Field(bogus, Fata)), Str(c_race), Str(Field(c_name, RaKu)),
     Str(Field(c_id, <<"1">>)), Str(Field(c_alignment, Law)),
     Arr(<<Field(c_race, Fata), Field(c_race, Drago)>>)}

Sorts ==
    {Absent, Str(<<>>), Str(Sort(c_name, asc)), Str(Sort(c_id, desc)),
     Str(Sort(c_name, <<"s", "i", "d", "e", "w", "a", "y", "s">>)),
     Str(Sort(bogus, asc)), Str(Sort(toUpperCase(c_name), asc)),
     Str(Sort(c_race, toUpperCase(desc))), Str(Sort(c_imageUrl, asc)),
     Arr(<<Sort(c_name, asc), Sort(c_id, desc)>>)}

Pages ==
    {Absent, Str(<<"2">>), Str(<<"0">>), Str(<<"-", "1">>), Str(<<"x">>),
     Arr(<<<<"2">>, <<"1">>>>)}

PageSizes == {Absent, Str(<<"2">>), Str(<<"0">>), Str(<<"-", "2">>), Str(<<"x">>)}

Query(filter, sort, page, pageSize) ==
    [filter |-> filter, sort |-> sort, page |-> page, pageSize |-> pageSize]

\* Every combination of the values above.
Queries ==
    {Query(f, s, p, z) : f \in Filters, s \in Sorts, p \in Pages, z \in PageSizes}

\* The requests sent while the server starts.
StartupQueries ==
    {Query(Absent, Absent, Absent, Absent)}

Bodies ==
    {Body(Pixie, Fata, Chaos, Undefined),
     Body(pixie, Fata, Neutral, Undefined),
     Body(Odin, Drago, Law, <<"h", ":", "o">>),
     Body(Odin, Fata, Evil, Undefined),
     Body(Odin, Fata, Undefined, Undefined),
     Body(Odin, Fata, Law, <<"o">>)}

\* The create requests sent between list requests.
QueryBodies ==
    {Body(Pixie, Fata, Chaos, Undefined),
     Body(RaKu, Fata, Neutral, Undefined),
     Body(Odin, Fata, Evil, Undefined)}

---------------------------------------------------------------------------
(* The state machine. *)

Init ==
    /\ rows = <<>>
    /\ seq = 0
    /\ keepsSkipped \in BOOLEAN
    /\ tableExists = FALSE
    /\ dbOpen = FALSE
    /\ dbQueue = <<>>
    /\ listening = FALSE
    /\ run = 1
    /\ seeded = FALSE
    /\ posts = <<>>
    /\ log = <<>>
    /\ lq = <<>>
    /\ resp = <<>>

\* Lines 25-32: the database is open; initDb queues its statements.
OpenDb ==
    /\ ~dbOpen
    /\ dbOpen' = TRUE
    /\ dbQueue' = initDb
    /\ UNCHANGED <<rows, seq, keepsSkipped, tableExists, listening, run, seeded,
                   posts, log, lq, resp>>

\* The store executes the next statement initDb queued.
DbStep ==
    /\ dbOpen
    /\ Len(dbQueue) > 0
    /\ LET stmt == Head(dbQueue)
       IN IF stmt.op = "create_table"
          THEN /\ tableExists' = TRUE
               /\ UNCHANGED <<rows, seq>>
          ELSE /\ rows' = InsertOrIgnore(rows, seq, stmt.d)
               /\ seq' = SequenceAfterIgnore(rows, seq, stmt.d, keepsSkipped)
               /\ UNCHANGED tableExists
    /\ dbQueue' = Tail(dbQueue)
    /\ seeded' = (seeded \/ Len(dbQueue) = 1)
    /\ UNCHANGED <<keepsSkipped, dbOpen, listening, run, posts, log, lq, resp>>

\* A start() that waits for the seed statements.
ListenAfterSeeding ==
    /\ ~listening
    /\ dbOpen
    /\ Len(dbQueue) = 0
    /\ listening' = TRUE
    /\ UNCHANGED <<rows, seq, keepsSkipped, tableExists, dbOpen, dbQueue, run,
                   seeded, posts, log, lq, resp>>

\* Lines 211-222: start() runs when the module is loaded; nothing in it
\* waits for the database.
Listen ==
    /\ ~listening
    /\ listening' = TRUE
    /\ UNCHANGED <<rows, seq, keepsSkipped, tableExists, dbOpen, dbQueue, run,
                   seeded, posts, log, lq, resp>>

\* The process ends and is started again over the same database.sqlite.
Restart ==
    /\ run < MaxRuns
    /\ run' = run + 1
    /\ dbOpen' = FALSE
    /\ dbQueue' = <<>>
    /\ listening' = FALSE
    /\ posts' = <<>>
    /\ lq' = <<>>
    /\ resp' = <<>>
    /\ UNCHANGED <<rows, seq, keepsSkipped, tableExists, seeded, log>>

\* Lines 179-183: a create request arrives; a body the schema rejects is
\* answered 400 and never reaches the handler.
CreateRequest(body, max) ==
    /\ listening
    /\ Len(log) + Len(posts) < max
    /\ IF demonSchema(body)
       THEN /\ posts' = Append(posts, body)
            /\ UNCHANGED log
       ELSE /\ log' = Append(log, [status |-> 400, id |-> 0, name |-> body.name])
            /\ UNCHANGED posts
    /\ UNCHANGED <<rows, seq, keepsSkipped, tableExists, dbOpen, dbQueue, listening, run,
                   seeded, lq, resp>>

\* Lines 185-205: the INSERT of the oldest waiting create request executes
\* and its callback answers.
CreateExec ==
    /\ dbOpen
    /\ Len(posts) > 0
    /\ LET body == Head(posts)
       IN IF tableExists
          THEN /\ rows' = Insert(rows, seq, CreateStatement(body))
               /\ seq' = Max(Ids(rows') \cup {seq})
               /\ log' = Append(log, CreateReply(rows, seq, body))
          ELSE /\ log' = Append(log, [status |-> 500, id |-> 0, name |-> body.name])
               /\ UNCHANGED <<rows, seq>>
    /\ posts' = Tail(posts)
    /\ UNCHANGED <<keepsSkipped, tableExists, dbOpen, dbQueue, listening, run,
                   seeded, lq, resp>>

Response(query, h, status, body) ==
    [query |-> query, threw |-> h.threw, sql |-> h.sql, params |-> h.params,
     status |-> status, body |-> body]

\* Lines 111-161: a list request arrives; the handler builds the statement
\* and hands it to db.all, or throws.
ListRequest(query) ==
    /\ listening
    /\ Len(lq) = 0
    /\ LET h == ListHandler(query)
       IN IF h.threw
          THEN /\ resp' = <<Response(query, h, 500, <<>>)>>
               /\ UNCHANGED lq
          ELSE /\ lq' = <<[query |-> query, h |-> h]>>
               /\ UNCHANGED resp
    /\ UNCHANGED <<rows, seq, keepsSkipped, tableExists, dbOpen, dbQueue, listening, run,
                   seeded, posts, log>>

\* Lines 163-175: db.all executes and its callback answers.
ListExec ==
    /\ dbOpen
    /\ Len(lq) > 0
    /\ LET q == lq[1]
       IN IF tableExists
          THEN \E body \in DbAll(q.h.sql, q.h.params, rows) :
                   resp' = <<Response(q.query, q.h, 200, body)>>
          ELSE resp' = <<Response(q.query, q.h, 500, <<>>)>>
    /\ lq' = <<>>
    /\ UNCHANGED <<rows, seq, keepsSkipped, tableExists, dbOpen, dbQueue, listening, run,
                   seeded, posts, log>>

\* The answer has been written to the socket.
Deliver ==
    /\ Len(resp) > 0
    /\ resp' = <<>>
    /\ UNCHANGED <<rows, seq, keepsSkipped, tableExists, dbOpen, dbQueue, listening, run,
                   seeded, posts, log, lq>>

\* An answer is sent in the turn of the event loop that produced it: while
\* resp holds one, the only step is the one that sends it.  No action reads
\* resp, so this leaves out no behaviour of the server.
Next ==
    \/ Deliver
    \/ /\ Len(resp) = 0
       /\ \/ OpenDb
          \/ DbStep
          \/ Listen
          \/ Restart
          \/ \E body \in Bodies : CreateRequest(body, MaxCreates)
          \/ CreateExec
          \/ \E query \in StartupQueries : ListRequest(query)
          \/ ListExec

Spec == Init /\ [][Next]_vars

\* The server after a complete first start: seeded and listening.
QueryInit ==
    /\ keepsSkipped \in BOOLEAN
    /\ rows = SeedAll(<<>>, 0, initDb, keepsSkipped).table
    /\ seq = SeedAll(<<>>, 0, initDb, keepsSkipped).seq
    /\ tableExists = TRUE
    /\ dbOpen = TRUE
    /\ dbQueue = <<>>
    /\ listening = TRUE
    /\ run = 1
    /\ seeded = TRUE
    /\ posts = <<>>
    /\ log = <<>>
    /\ lq = <<>>
    /\ resp = <<>>

QueryNext ==
    \/ Deliver
    \/ /\ Len(resp) = 0
       /\ \/ \E body \in QueryBodies : CreateRequest(body, MaxQueryCreates)
          \/ CreateExec
          \/ \E query \in Queries : ListRequest(query)
          \/ ListExec

QuerySpec == QueryInit /\ [][QueryNext]_vars

---------------------------------------------------------------------------
(* The claims. *)

\* The ORDER BY clause of a statement: its column and direction, or <<>>.
OrderClause(sql) ==
    LET o == Position(sql, SqlOrderBy)
    IN IF o = 0 THEN <<>> ELSE <<sql[o + 1], sql[o + 3]>>

\* A $sort value the documentation calls valid.
ValidSort(s) == SortMatch(s).ok /\ SortMatch(s).col \in allowedSorts

IdAscending(body) == \A i, j \in DOMAIN body : i < j => body[i].id < body[j].id

\* C1: a list request whose $sort is a string that is not valid is answered
\* from a statement ordered by id ascending, and its rows come in ascending
\* id order; a valid $sort orders by the named column in the named direction.
C1_InvalidSortFallsBack ==
    \A i \in DOMAIN resp :
        LET r == resp[i]
        IN (r.status = 200 /\ r.query.sort.kind = "string") =>
              IF ValidSort(r.query.sort.v)
              THEN OrderClause(r.sql) =
                       <<SortMatch(r.query.sort.v).col,
                         toUpperCase(SortMatch(r.query.sort.v).dir)>>
              ELSE /\ OrderClause(r.sql) = <<c_id, toUpperCase(asc)>>
                   /\ IdAscending(r.body)

\* $page or $pageSize coerced on its own: the default when the value is
\* missing, not a number, or below 1.
Coerced(x, default) ==
    IF x.kind = "undefined" \/ isNaN(parseInt(x)) THEN default
    ELSE IF parseInt(x).n < 1 THEN default
    ELSE parseInt(x).n

\* C2: a list request is answered with LIMIT S OFFSET (P - 1) * S, P and S
\* being $page and $pageSize each coerced on its own.
C2_PaginationWindow ==
    \A i \in DOMAIN resp :
        LET r == resp[i]
            P == Coerced(r.query.page, DefaultPage)
            S == Coerced(r.query.pageSize, DefaultPageSize)
        IN r.status = 200 =>
              /\ r.params[Len(r.params) - 1] = S
              /\ r.params[Len(r.params)] = (P - 1) * S

\* C3: while the table exists, a list request is answered 200 whatever its
\* query parameters are.
C3_ListNeverRejects ==
    \A i \in DOMAIN resp : tableExists => resp[i].status = 200

\* The text of a column of a row, for comparing with a filter value.
RowText(r, col) == IF col = c_id THEN NumberToString(r.id) ELSE RowValue(r, col)

\* C6: a list request whose filter is field:value, the field up to the first
\* colon being in the allowlist, selects exactly the rows whose field equals
\* the value.
C6_FilterSelectsEqualRows ==
    \A i \in DOMAIN resp :
        LET r == resp[i]
            f == r.query.filter
            k == CHOOSE n \in DOMAIN f.v :
                     f.v[n] = ":" /\ \A m \in 1..(n - 1) : f.v[m] # ":"
            field == SubSeq(f.v, 1, k - 1)
            value == SubSeq(f.v, k + 1, Len(f.v))
        IN (/\ r.status = 200
            /\ f.kind = "string"
            /\ \E n \in DOMAIN f.v : f.v[n] = ":"
            /\ field \in allowedFilters) =>
              Selected(r.sql, r.params, rows) =
                  {n \in DOMAIN rows : RowText(rows[n], field) = value}

WhereClauses == {<<>>} \cup {<<SqlWhere, c, SqlEqParam>> : c \in allowedFilters}

OrderClauses ==
    {<<>>} \cup {<<SqlOrderBy, c, SqlSpace, d>> :
                    c \in allowedSorts, d \in {toUpperCase(asc), toUpperCase(desc)}}

Statements ==
    {<<SqlSelect>> \o w \o o \o <<SqlLimitOffset>> :
        w \in WhereClauses, o \in OrderClauses}

\* The statements handed to db.all, waiting or answered, each with its request.
Handled ==
    {[query |-> lq[i].query, sql |-> lq[i].h.sql, params |-> lq[i].h.params] :
        i \in DOMAIN lq}
        \cup {[query |-> resp[i].query, sql |-> resp[i].sql, params |-> resp[i].params] :
                 i \in {n \in DOMAIN resp : ~resp[n].threw}}

\* C8: the SQL text of a list request is SELECT, at most one WHERE col = ?
\* with an allowlisted column, at most one ORDER BY with an allowlisted
\* column and ASC or DESC, and LIMIT ? OFFSET ?; the parameters are one per
\* question mark: the filter value of the request, if filtered, then the
\* limit and the offset.
C8_SqlTextIsFixed ==
    \A h \in Handled :
        /\ h.sql \in Statements
        /\ Len(h.params) = 2 + (IF Position(h.sql, SqlWhere) > 0 THEN 1 ELSE 0)
        /\ Position(h.sql, SqlWhere) > 0 =>
              h.params[1] = SubSeq(h.query.filter.v,
                                   Len(h.sql[Position(h.sql, SqlWhere) + 1]) + 2,
                                   Len(h.query.filter.v))
        /\ h.params[Len(h.params) - 1] >= 1
        /\ h.params[Len(h.params)] >= 0

\* A request with a filter, a sort and a page was answered.
C8_Witness ==
    \E i \in DOMAIN resp :
        /\ resp[i].status = 200
        /\ Position(resp[i].sql, SqlWhere) > 0
        /\ Position(resp[i].sql, SqlOrderBy) > 0
        /\ resp[i].params[1] = Fata
        /\ resp[i].params[3] = 2

Count201(name) == Cardinality({i \in DOMAIN log : log[i].status = 201 /\ log[i].name = name})

UniqueNames == \A i, j \in DOMAIN rows : rows[i].name = rows[j].name => i = j

SeedNames == {initDb[i].d.name : i \in {n \in DOMAIN initDb : initDb[n].op = "seed"}}

\* C4: a create whose name is already in the table is answered 409 and
\* leaves the table as it is; the table never holds two rows of one name; of
\* the creates answered 201 or 409 for one name at most one was answered
\* 201, and exactly one when the seeds do not hold the name.
C4_DuplicateCreate ==
    /\ [](/\ UniqueNames
          /\ \A i \in DOMAIN log :
                log[i].status \in {201, 409} =>
                   /\ Cardinality({n \in DOMAIN rows : rows[n].name = log[i].name}) = 1
                   /\ Count201(log[i].name) <= 1
                   /\ log[i].name \notin SeedNames => Count201(log[i].name) = 1)
    /\ [][(/\ Len(posts) > 0
           /\ posts' = Tail(posts)
           /\ log' # log
           /\ Head(posts).name \in Names(rows)) =>
              /\ log'[Len(log')].status = 409
              /\ rows' = rows]_vars

\* Two creates of one new name were answered, the first 201, the second 409.
C4_Witness ==
    \E i, j \in DOMAIN log :
        /\ i < j
        /\ log[i].status = 201
        /\ log[j].status = 409
        /\ log[i].name = log[j].name
        /\ log[i].name \notin SeedNames

\* C5: a step that inserts a row inserts one row, after the others, with a
\* positive id greater than every id in the table; a create answered 201
\* returns that id; no two rows have the same id.
C5_IdsIncrease ==
    /\ [](\A i, j \in DOMAIN rows : rows[i].id = rows[j].id => i = j)
    /\ [][/\ rows' # rows =>
                /\ Len(rows') = Len(rows) + 1
                /\ SubSeq(rows', 1, Len(rows)) = rows
                /\ rows'[Len(rows')].id > 0
                /\ \A i \in DOMAIN rows : rows'[Len(rows')].id > rows[i].id
          /\ (Len(log') > Len(log) /\ log'[Len(log')].status = 201) =>
                /\ rows' # rows
                /\ log'[Len(log')].id = rows'[Len(rows')].id
                /\ log'[Len(log')].name = rows'[Len(rows')].name]_vars

\* A create was answered 201 after a skipped seed and a create answered 409.
C5_Witness ==
    /\ seeded
    /\ seq > Len(rows)
    /\ \E i, j \in DOMAIN log :
          /\ i < j
          /\ log[i].status = 409
          /\ log[j].status = 201
          /\ log[j].id = rows[Len(rows)].id

\* C7: once a start has executed all its seed statements, executing a seed
\* statement leaves the table as it is; no two rows have the same name.
C7_SeedingIdempotent ==
    /\ [](\A i, j \in DOMAIN rows : i # j => rows[i].name # rows[j].name)
    /\ [][(seeded /\ Len(dbQueue) > 0 /\ dbQueue' = Tail(dbQueue)) =>
              rows' = rows]_vars

\* The second start has executed its first seed statement and not its last.
C7_Witness ==
    /\ run = 2
    /\ seeded
    /\ Len(dbQueue) > 0
    /\ Len(dbQueue) = Len(initDb) - 2

DefaultQuery == Query(Absent, Absent, Absent, Absent)

\* C9: the server starts listening whatever the state of the database, and
\* a list request handed to an open database is answered whatever seed
\* statements are still queued.
C9_NoReadinessGate ==
    /\ ~listening => ENABLED Listen
    /\ (dbOpen /\ Len(lq) > 0) => ENABLED ListExec

\* A list request answered 200 while seed statements were queued, with
\* fewer rows than the same request returns once they have executed.
C9_Witness ==
    \E i \in DOMAIN resp :
        LET r == resp[i]
        IN /\ r.status = 200
           /\ r.query = DefaultQuery
           /\ Len(dbQueue) > 0
           /\ Len(r.body) > 0
           /\ LET after == SeedAll(rows, seq, dbQueue, keepsSkipped).table
              IN /\ Range(r.body) \subseteq Range(after)
                 /\ Range(r.body) # Range(after)

====
